---- MODULE Spec2Model ----
(***************************************************************************)
(* Model of the Siema carousel controller and its CachedEventRegistry.     *)
(*                                                                         *)
(* Pixel quantities are integers.  Item and container widths are even, so  *)
(* the two halvings of _calculateTranslation are exact.  The JavaScript    *)
(* values NaN, Infinity and -Infinity are the sentinels NaN, Infinity and  *)
(* NegInfinity, and the arithmetic operators below give them their         *)
(* JavaScript meaning.                                                     *)
(***************************************************************************)
EXTENDS Integers, Sequences, FiniteSets, TLC

(* ------------------------------ bounds --------------------------------- *)

\* Items are 1..MaxItems; the carousel holds each at most once.
MaxItems == 3
\* Callbacks that may be passed to onChange are 1..MaxCallbacks.
MaxCallbacks == 2
\* pageX and pageY of a pointer event are PageStep * (0..MaxPage).
MaxPage == 1
\* A mouse drag is followed while the offset stays within -MaxOffset..MaxOffset
\* (a drag over an empty carousel is never snapped back and could drift on).
MaxOffset == 6

Items == 1..MaxItems
Callbacks == 1..MaxCallbacks
PageXs == {2 * k : k \in 0..MaxPage}
PageYs == PageXs
\* Widths the render surface reports for the container.
ContainerWidths == {4, 8}
\* Width the render surface reports for the slide wrapping an item.
ItemWidth(item) == IF item % 3 = 0 THEN 4 ELSE 2

(* ------------------------ JavaScript numbers --------------------------- *)

NaN == -1000000
Infinity == 1000
NegInfinity == -1000

IsNumber(a) == a # NaN
Sub(a, b) == IF a = NaN \/ b = NaN THEN NaN ELSE a - b
\* a / 2, for the even values the model measures
Half(a) == IF a = NaN THEN NaN ELSE a \div 2
MathAbs(a) == IF a = NaN THEN NaN ELSE IF a < 0 THEN -a ELSE a
MathMaxJS(a, b) == IF a = NaN \/ b = NaN THEN NaN ELSE IF a >= b THEN a ELSE b
MathMinJS(a, b) == IF a = NaN \/ b = NaN THEN NaN ELSE IF a <= b THEN a ELSE b
\* a < b of JavaScript: false as soon as one side is NaN
Less(a, b) == a # NaN /\ b # NaN /\ a < b
\* truthiness of a number
Truthy(a) == a # NaN /\ a # 0

(* ------------------------------- state --------------------------------- *)

VARIABLES
    config,              \* this._config: stickToEdges, draggable, duration
    containerWidth,      \* this._selector.getBoundingClientRect().width
    innerElements,       \* this._innerElements
    currentSlide,        \* this._currentSlide
    currentTranslation,  \* this._currentTranslation
    transitionDuration,  \* duration of the frame's transition style
    cursor,              \* this._selector.style.cursor
    pointerDown,         \* this._pointerDown
    drag,                \* this._drag
    listeners,           \* this._eventRegistry._listeners, in insertion order
    lastArgs,            \* this._eventRegistry._lastArgs
    handles,             \* callbacks whose unsubscribe handle the caller holds
    pointer,             \* the pointer the environment holds down: none, touch, mouse
    delivered,           \* callback invocations made by the last operation
    last,                \* the last operation: name, argument, whether it threw
    pre,                 \* ItemSet, index and offset before the last insert or Start
    stack                \* the goTo calls in progress, outermost first

vars == <<config, containerWidth, innerElements, currentSlide, currentTranslation,
          transitionDuration, cursor, pointerDown, drag, listeners, lastArgs,
          handles, pointer, delivered, last, pre, stack>>

(* ------------------------- constants of the code ------------------------ *)

GRAB_CURSOR == "-webkit-grab"
GRABBING_CURSOR == "-webkit-grabbing"
\* the default duration of mergeSettings
DefaultDuration == 200
\* a property that was never assigned
Undefined == -2000000
\* undefined and NaN both become NaN under arithmetic
ToNumber(v) == IF v = Undefined THEN NaN ELSE v

(* --------------------------- pure functions ----------------------------- *)

\* clamp without its lower bound
clampAbove(value, min, max) == MathMinJS(max, value)

\* Siema.clamp
clamp(value, min, max) == MathMaxJS(min, MathMinJS(max, value))

\* the reduction of closest with <= for <: the last of equally near elements
RECURSIVE closestReduceLast(_, _, _, _)
closestReduceLast(value, array, k, prev) ==
    IF k > Len(array) THEN prev
    ELSE closestReduceLast(value, array, k + 1,
            IF ~Less(MathAbs(Sub(prev, value)), MathAbs(Sub(array[k], value)))
            THEN array[k] ELSE prev)

\* array.reduce(f) without an initial value, on a non-empty array, for the
\* callback of Siema.closest: the running value is replaced only by a strictly
\* nearer element.
RECURSIVE closestReduce(_, _, _, _)
closestReduce(value, array, k, prev) ==
    IF k > Len(array) THEN prev
    ELSE closestReduce(value, array, k + 1,
            IF Less(MathAbs(Sub(array[k], value)), MathAbs(Sub(prev, value)))
            THEN array[k] ELSE prev)

\* Siema.closest, defined on non-empty arrays (reduce throws on an empty one)
closest(value, array) == closestReduce(value, array, 2, array[1])

\* Array.prototype.indexOf: zero-based, strict equality, -1 when absent
indexOf(array, v) ==
    IF v # NaN /\ \E k \in 1..Len(array) : array[k] = v
    THEN (CHOOSE k \in 1..Len(array) :
             array[k] = v /\ \A j \in 1..(k - 1) : array[j] # v) - 1
    ELSE -1

\* end of array.slice(0, end) as an element count
sliceEnd(len, end) ==
    IF end < 0 THEN (IF len + end < 0 THEN 0 ELSE len + end)
    ELSE IF end > len THEN len ELSE end

\* widths.slice(0, end).reduce((sum, width) => sum + width, 0)
RECURSIVE sumPrefix(_, _)
sumPrefix(widths, n) == IF n = 0 THEN 0 ELSE sumPrefix(widths, n - 1) + widths[n]

\* widths[index], zero-based: undefined outside the array, NaN once halved
widthAt(widths, index) ==
    IF 0 <= index /\ index < Len(widths) THEN widths[index + 1] ELSE NaN

\* this._innerSlides.map(el => el.getBoundingClientRect().width)
measureWidths(slides) ==
    IF Len(slides) = 0 THEN <<>>
    ELSE [k \in 1..Len(slides) |-> ItemWidth(slides[k])]

\* this._sliderFrame.getBoundingClientRect().width: an inline-flex frame of
\* width auto is as wide as its slides together
measureFrame(widths) == sumPrefix(widths, Len(widths))

\* Siema._calculateTranslation, on the measurements it takes from the surface
_calculateTranslation(index, stickToEdges, container, widths) ==
    LET frameWidth == measureFrame(widths)
        previousWidthSum == sumPrefix(widths, sliceEnd(Len(widths), index))
        translation == Sub(Sub(Half(container), previousWidthSum),
                           Half(widthAt(widths, index)))
        maxClamp == IF stickToEdges THEN 0 ELSE Infinity
        minClamp == IF stickToEdges THEN MathMinJS(0, container - frameWidth)
                    ELSE NegInfinity
    IN  clamp(translation, minClamp, maxClamp)

\* this._innerSlides: one wrapper per element, rebuilt by _resetFrameSlides
innerSlides == innerElements

\* the offsets _updateAfterDrag compares the live offset with
translations ==
    IF Len(innerSlides) = 0 THEN <<>>
    ELSE [k \in 1..Len(innerSlides) |->
             _calculateTranslation(k - 1, FALSE, containerWidth,
                                   measureWidths(innerSlides))]

(* --------------------------- notification hub --------------------------- *)

\* notify without line 16: the payload is delivered but not cached
notifyUncached(args) ==
    /\ lastArgs' = lastArgs
    /\ delivered' = IF Len(listeners) = 0 THEN <<>>
                    ELSE [k \in 1..Len(listeners) |->
                             [callback |-> listeners[k], args |-> args]]

\* CachedEventRegistry.notify
notify(args) ==
    /\ lastArgs' = args
    /\ delivered' = IF Len(listeners) = 0 THEN <<>>
                    ELSE [k \in 1..Len(listeners) |->
                             [callback |-> listeners[k], args |-> args]]

\* CachedEventRegistry.listen
listen(callback) ==
    /\ listeners' = IF \E k \in 1..Len(listeners) : listeners[k] = callback
                    THEN listeners ELSE Append(listeners, callback)
    /\ delivered' = IF Len(lastArgs) # 0
                    THEN <<[callback |-> callback, args |-> lastArgs]>> ELSE <<>>
    /\ UNCHANGED lastArgs

\* the function listen returns: Set has no method remove, so the call throws
\* a TypeError and the set is left as it was
unlistenThrows == TRUE

unlisten(callback) ==
    /\ delivered' = <<>>
    /\ IF unlistenThrows
       THEN UNCHANGED listeners
       ELSE listeners' = SelectSeq(listeners, LAMBDA c : c # callback)
    /\ UNCHANGED lastArgs

(* ------------------------- position controller -------------------------- *)

_setCurrentSlide(slide) ==
    /\ currentSlide' = slide
    /\ notify(<<slide>>)

_setTranslation(value) == currentTranslation' = value

_setTransition(duration) == transitionDuration' = duration

_setCursor(c) == cursor' = c

\* reads the index and the surface as they are when it is called
_slideToIndex(index) ==
    _setTranslation(_calculateTranslation(index, config.stickToEdges,
                        containerWidth', measureWidths(innerElements')))

_slideToCurrent == _slideToIndex(currentSlide')

\* the state _resetFrameSlides changes: a new frame with the configured
\* transition, offset 0 and, when draggable, the grab cursor
_resetFrameSlides ==
    /\ _setTransition(config.duration)
    /\ _setTranslation(0)
    /\ IF config.draggable THEN _setCursor(GRAB_CURSOR) ELSE UNCHANGED cursor

\* what an operation that throws before its first assignment leaves behind
Rejected ==
    /\ delivered' = <<>>
    /\ UNCHANGED <<containerWidth, innerElements, currentSlide, currentTranslation,
                   transitionDuration, cursor, pointerDown, drag, listeners, lastArgs>>

goTo(index) ==
    /\ UNCHANGED <<containerWidth, innerElements, transitionDuration, cursor,
                   pointerDown, drag, listeners>>
    /\ _setCurrentSlide(clamp(index, 0, Len(innerElements)))
    /\ IF currentSlide # currentSlide'
       THEN _slideToCurrent
       ELSE UNCHANGED currentTranslation

moveBy(howManySlides) ==
    goTo(clamp(currentSlide + howManySlides, 0, Len(innerSlides)))

next(howManySlides) == moveBy(howManySlides)

prev(howManySlides) == moveBy(-howManySlides)

\* the range check of remove with > for >=
removeThrowsPastEnd(index) == index < 0 \/ index > Len(innerElements)

removeThrows(index) == index < 0 \/ index >= Len(innerElements)

\* the index remove sets: "avoid shifting content"
slideAfterRemove(index) ==
    IF index <= currentSlide THEN currentSlide - 1 ELSE currentSlide

\* innerElements.splice(index, 1), for an index inside the array
spliceOut(array, index) ==
    IF Len(array) = 1 THEN <<>>
    ELSE [k \in 1..(Len(array) - 1) |->
             IF k <= index THEN array[k] ELSE array[k + 1]]

remove(index) ==
    IF removeThrows(index) THEN Rejected
    ELSE /\ _setCurrentSlide(slideAfterRemove(index))
         /\ innerElements' = spliceOut(innerElements, index)
         /\ _resetFrameSlides
         /\ UNCHANGED <<containerWidth, pointerDown, drag, listeners>>

insertThrows(item, index) ==
    \/ index < 0 \/ index > Len(innerElements) + 1
    \/ \E k \in 1..Len(innerElements) : innerElements[k] = item

\* the shift of insert with < for <=
slideAfterInsertStrict(index) ==
    IF index < currentSlide THEN currentSlide + 1 ELSE currentSlide

\* the index insert sets: "avoid shifting content"
slideAfterInsert(index) ==
    IF index <= currentSlide THEN currentSlide + 1 ELSE currentSlide

\* innerElements.splice(index, 0, item): a start past the end inserts at the end
spliceIn(array, index, item) ==
    LET at == IF index > Len(array) THEN Len(array) ELSE index
    IN  [k \in 1..(Len(array) + 1) |->
            IF k <= at THEN array[k]
            ELSE IF k = at + 1 THEN item ELSE array[k - 1]]

insert(item, index) ==
    IF insertThrows(item, index) THEN Rejected
    ELSE /\ _setCurrentSlide(slideAfterInsert(index))
         /\ innerElements' = spliceIn(innerElements, index, item)
         /\ _resetFrameSlides
         /\ UNCHANGED <<containerWidth, pointerDown, drag, listeners>>

prepend(item) == insert(item, 0)

append(item) == insert(item, Len(innerElements) + 1)

(* --------------------------- gesture handlers --------------------------- *)

\* the _drag object _attachEvents creates: it has no startingTranslation yet
InitialDrag ==
    [startingTranslation |-> Undefined, startX |-> 0, endX |-> 0, startY |-> 0,
     letItGo |-> "null"]

\* the _drag object _clearDrag creates
ClearedDrag ==
    [startingTranslation |-> 0, startX |-> 0, endX |-> 0, startY |-> 0,
     letItGo |-> "null"]

_clearDrag == drag' = ClearedDrag

\* Siema.closest throws a TypeError on an empty array (reduce of an empty array
\* with no initial value), and _updateAfterDrag with it
updateThrows == Len(innerSlides) = 0

\* _updateAfterDrag; when closest throws nothing has been assigned yet
_updateAfterDrag ==
    IF updateThrows
    THEN /\ delivered' = <<>>
         /\ UNCHANGED <<currentSlide, lastArgs, currentTranslation>>
    ELSE /\ _setCurrentSlide(indexOf(translations,
                                     closest(currentTranslation, translations)))
         /\ _slideToCurrent

_resizeHandler(width) ==
    /\ containerWidth' = width
    /\ UNCHANGED <<innerElements, currentSlide, transitionDuration, cursor,
                   pointerDown, drag, listeners, lastArgs>>
    /\ delivered' = <<>>
    /\ _slideToCurrent

_touchstartHandler(pageX, pageY) ==
    /\ pointerDown' = TRUE
    /\ drag' = [drag EXCEPT !.startX = pageX, !.startY = pageY]
    /\ delivered' = <<>>
    /\ UNCHANGED <<containerWidth, innerElements, currentSlide, currentTranslation,
                   transitionDuration, cursor, listeners, lastArgs>>

\* whether _touchendHandler runs _updateAfterDrag and it throws
touchendThrows == Truthy(drag.endX) /\ updateThrows

_touchendHandler ==
    /\ pointerDown' = FALSE
    /\ UNCHANGED <<containerWidth, innerElements, cursor, listeners>>
    /\ IF Truthy(drag.endX)
       THEN _updateAfterDrag
       ELSE /\ delivered' = <<>>
            /\ UNCHANGED <<currentSlide, lastArgs, currentTranslation>>
    /\ IF touchendThrows
       THEN UNCHANGED <<transitionDuration, drag>>
       ELSE /\ _setTransition(config.duration)
            /\ _clearDrag

\* the axis decision of the first touchmove of a gesture
decideLetItGo(pageX, pageY) ==
    IF drag.letItGo = "null"
    THEN (IF MathAbs(drag.startY - pageY) < MathAbs(drag.startX - pageX)
          THEN "true" ELSE "false")
    ELSE drag.letItGo

\* the offset a touch drag would start from if line 388 passed false
touchBaseUnclamped ==
    _calculateTranslation(currentSlide, FALSE, containerWidth,
                          measureWidths(innerSlides))

\* the offset line 388 subtracts the finger's displacement from
touchBase ==
    _calculateTranslation(currentSlide, config.stickToEdges, containerWidth,
                          measureWidths(innerSlides))

_touchmoveHandler(pageX, pageY) ==
    /\ delivered' = <<>>
    /\ UNCHANGED <<containerWidth, innerElements, currentSlide, cursor, pointerDown,
                   listeners, lastArgs>>
    /\ IF pointerDown /\ decideLetItGo(pageX, pageY) = "true"
       THEN /\ drag' = [drag EXCEPT !.letItGo = decideLetItGo(pageX, pageY),
                                    !.endX = pageX]
            /\ _setTransition(0)
            /\ _setTranslation(Sub(touchBase, drag.startX - pageX))
       ELSE /\ drag' = [drag EXCEPT !.letItGo = decideLetItGo(pageX, pageY)]
            /\ UNCHANGED <<transitionDuration, currentTranslation>>

_mousedownHandler(pageX) ==
    /\ pointerDown' = TRUE
    /\ drag' = [drag EXCEPT !.startX = pageX,
                            !.startingTranslation = currentTranslation]
    /\ _setCursor(GRABBING_CURSOR)
    /\ delivered' = <<>>
    /\ UNCHANGED <<containerWidth, innerElements, currentSlide, currentTranslation,
                   transitionDuration, listeners, lastArgs>>

_mouseupHandler ==
    /\ pointerDown' = FALSE
    /\ _setCursor(GRAB_CURSOR)
    /\ _setTransition(config.duration)
    /\ UNCHANGED <<containerWidth, innerElements, listeners>>
    /\ _updateAfterDrag
    /\ IF updateThrows THEN UNCHANGED drag ELSE _clearDrag

_mousemoveHandler(pageX) ==
    /\ delivered' = <<>>
    /\ UNCHANGED <<containerWidth, innerElements, currentSlide, cursor, pointerDown,
                   listeners, lastArgs>>
    /\ IF pointerDown
       THEN /\ drag' = [drag EXCEPT !.endX = pageX]
            /\ _setTranslation(Sub(ToNumber(drag.startingTranslation),
                                   drag.startX - pageX))
            /\ _setTransition(0)
       ELSE UNCHANGED <<drag, currentTranslation, transitionDuration>>

_mouseleaveHandler(pageX) ==
    IF pointerDown
    THEN /\ pointerDown' = FALSE
         /\ _setCursor(GRAB_CURSOR)
         /\ _setTransition(config.duration)
         /\ UNCHANGED <<containerWidth, innerElements, listeners>>
         /\ _updateAfterDrag
         /\ IF updateThrows
            THEN drag' = [drag EXCEPT !.endX = pageX]
            ELSE _clearDrag
    ELSE /\ delivered' = <<>>
         /\ UNCHANGED <<containerWidth, innerElements, currentSlide,
                        currentTranslation, transitionDuration, cursor, pointerDown,
                        drag, listeners, lastArgs>>

(* ------------------------------ construction ---------------------------- *)

\* the sequences over Items without repetition: the children of the selector
DistinctSeqs ==
    UNION {{q \in [1..n -> Items] : \A a, b \in 1..n : a # b => q[a] # q[b]} :
           n \in 0..MaxItems}

\* pre: the ItemSet, index and offset before a successful insert(_, arg) or
\* before a Start, kept over the remove(arg) or the End that directly follows
NoPre ==
    [set |-> FALSE, arg |-> 0, items |-> <<>>, slide |-> 0, translation |-> 0]

Snapshot(arg) ==
    [set |-> TRUE, arg |-> arg, items |-> innerElements, slide |-> currentSlide,
     translation |-> currentTranslation]

Did(op, arg, err) == last' = [op |-> op, arg |-> arg, err |-> err]

\* new Siema(options): the state the constructor leaves
Init ==
    /\ config \in [stickToEdges : BOOLEAN, draggable : BOOLEAN,
                   duration : {DefaultDuration}]
    /\ containerWidth \in ContainerWidths
    /\ innerElements \in DistinctSeqs
    /\ listeners = <<>>
    /\ transitionDuration = config.duration
    /\ cursor = IF config.draggable THEN GRAB_CURSOR ELSE ""
    /\ pointerDown = FALSE
    /\ drag = InitialDrag
    /\ currentSlide = 0
    /\ lastArgs = <<0>>
    /\ currentTranslation =
           _calculateTranslation(0, config.stickToEdges, containerWidth,
                                 measureWidths(innerElements))
    /\ handles = {}
    /\ pointer = "none"
    /\ delivered = <<>>
    /\ last = [op |-> "constructor", arg |-> 0, err |-> ""]
    /\ pre = NoPre
    /\ stack = <<>>

(* ------------------- calls and events of the environment ---------------- *)
(* The caller's calls arrive between gestures, while no pointer is held     *)
(* down; a resize may arrive at any time.  A gesture starts on a slide, so  *)
(* touchstart and mousedown arrive while the carousel holds an item.  A     *)
(* touch gesture is touchstart, touchmoves, touchend; the mouse may move,   *)
(* leave and be released over the carousel whether or not it was pressed    *)
(* there.  Callbacks are numbered in the order of their first subscription. *)
(* last names the method or handler that did the work of the step, the      *)
(* index it was given and the error it threw.                               *)

NoError == ""
RangeError == "range"
DuplicateItemError == "duplicate"
TypeError == "TypeError"

insertError(item, index) ==
    IF index < 0 \/ index > Len(innerElements) + 1 THEN RangeError
    ELSE IF insertThrows(item, index) THEN DuplicateItemError ELSE NoError

GoToArgs == -1..(MaxItems + 1)
MoveArgs == -2..2
StepArgs == 1..2
InsertArgs == -1..(MaxItems + 1)
RemoveArgs == -1..MaxItems

GoTo(index) ==
    /\ pointer = "none"
    /\ goTo(index)
    /\ Did("goTo", index, NoError)
    /\ pre' = NoPre
    /\ UNCHANGED <<config, stack, handles, pointer>>

MoveBy(n) ==
    /\ pointer = "none"
    /\ moveBy(n)
    /\ Did("goTo", clamp(currentSlide + n, 0, Len(innerSlides)), NoError)
    /\ pre' = NoPre
    /\ UNCHANGED <<config, stack, handles, pointer>>

NextSlide(n) ==
    /\ pointer = "none"
    /\ next(n)
    /\ Did("goTo", clamp(currentSlide + n, 0, Len(innerSlides)), NoError)
    /\ pre' = NoPre
    /\ UNCHANGED <<config, stack, handles, pointer>>

PrevSlide(n) ==
    /\ pointer = "none"
    /\ prev(n)
    /\ Did("goTo", clamp(currentSlide - n, 0, Len(innerSlides)), NoError)
    /\ pre' = NoPre
    /\ UNCHANGED <<config, stack, handles, pointer>>

Insert(item, index) ==
    /\ pointer = "none"
    /\ insert(item, index)
    /\ Did("insert", IF insertThrows(item, index) THEN 0 ELSE index,
           insertError(item, index))
    /\ pre' = IF insertThrows(item, index) THEN NoPre ELSE Snapshot(index)
    /\ UNCHANGED <<config, stack, handles, pointer>>

PrependItem(item) == Insert(item, 0)

AppendItem(item) == Insert(item, Len(innerElements) + 1)

\* pre is kept over a remove(i) that directly follows a successful insert(_, i)
Remove(index) ==
    /\ pointer = "none"
    /\ remove(index)
    /\ Did("remove", IF removeThrows(index) THEN 0 ELSE index,
           IF removeThrows(index) THEN RangeError ELSE NoError)
    /\ pre' = IF last.op = "insert" /\ last.err = NoError /\ last.arg = index
              THEN pre ELSE NoPre
    /\ UNCHANGED <<config, stack, handles, pointer>>

OnChange(callback) ==
    /\ pointer = "none"
    /\ callback <= Len(listeners) + 1
    /\ listen(callback)
    /\ handles' = handles \cup {callback}
    /\ Did("onChange", callback, NoError)
    /\ pre' = NoPre
    /\ UNCHANGED <<config, stack, containerWidth, innerElements, currentSlide,
                   currentTranslation, transitionDuration, cursor, pointerDown,
                   drag, pointer>>

\* a call of a handle onChange returned
Unsubscribe(callback) ==
    /\ pointer = "none"
    /\ callback \in handles
    /\ unlisten(callback)
    /\ Did("unsubscribe", callback, IF unlistenThrows THEN TypeError ELSE NoError)
    /\ pre' = NoPre
    /\ UNCHANGED <<config, stack, containerWidth, innerElements, currentSlide,
                   currentTranslation, transitionDuration, cursor, pointerDown,
                   drag, handles, pointer>>

\* the window is resized and the resize event is handled
Resize(width) ==
    /\ _resizeHandler(width)
    /\ Did("resize", 0, NoError)
    /\ pre' = NoPre
    /\ UNCHANGED <<config, stack, handles, pointer>>

TouchStart(pageX, pageY) ==
    /\ config.draggable /\ pointer = "none" /\ Len(innerSlides) > 0
    /\ _touchstartHandler(pageX, pageY)
    /\ pointer' = "touch"
    /\ Did("touchstart", 0, NoError)
    /\ pre' = Snapshot(0)
    /\ UNCHANGED <<config, stack, handles>>

TouchMove(pageX, pageY) ==
    /\ config.draggable /\ pointer = "touch"
    /\ _touchmoveHandler(pageX, pageY)
    /\ Did("touchmove", 0, NoError)
    /\ pre' = NoPre
    /\ UNCHANGED <<config, stack, handles, pointer>>

\* pre is kept over an End that directly follows its Start
TouchEnd ==
    /\ config.draggable /\ pointer = "touch"
    /\ _touchendHandler
    /\ pointer' = "none"
    /\ Did("touchend", 0, IF touchendThrows THEN TypeError ELSE NoError)
    /\ pre' = IF last.op = "touchstart" THEN pre ELSE NoPre
    /\ UNCHANGED <<config, stack, handles>>

MouseDown(pageX) ==
    /\ config.draggable /\ pointer = "none" /\ Len(innerSlides) > 0
    /\ _mousedownHandler(pageX)
    /\ pointer' = "mouse"
    /\ Did("mousedown", 0, NoError)
    /\ pre' = Snapshot(0)
    /\ UNCHANGED <<config, stack, handles>>

MouseMove(pageX) ==
    /\ config.draggable /\ pointer \in {"none", "mouse"}
    /\ _mousemoveHandler(pageX)
    /\ currentTranslation' = NaN \/ MathAbs(currentTranslation') <= MaxOffset
    /\ Did("mousemove", 0, NoError)
    /\ pre' = NoPre
    /\ UNCHANGED <<config, stack, handles, pointer>>

MouseUp ==
    /\ config.draggable /\ pointer \in {"none", "mouse"}
    /\ _mouseupHandler
    /\ pointer' = "none"
    /\ Did("mouseup", 0, IF updateThrows THEN TypeError ELSE NoError)
    /\ pre' = IF last.op = "mousedown" THEN pre ELSE NoPre
    /\ UNCHANGED <<config, stack, handles>>

MouseLeave(pageX) ==
    /\ config.draggable /\ pointer \in {"none", "mouse"}
    /\ _mouseleaveHandler(pageX)
    /\ pointer' = "none"
    /\ Did("mouseleave", 0,
           IF pointerDown /\ updateThrows THEN TypeError ELSE NoError)
    /\ pre' = NoPre
    /\ UNCHANGED <<config, stack, handles>>

Next ==
    \/ \E index \in GoToArgs : GoTo(index)
    \/ \E n \in MoveArgs : MoveBy(n)
    \/ \E n \in StepArgs : NextSlide(n)
    \/ \E n \in StepArgs : PrevSlide(n)
    \/ \E item \in Items, index \in InsertArgs : Insert(item, index)
    \/ \E item \in Items : PrependItem(item)
    \/ \E item \in Items : AppendItem(item)
    \/ \E index \in RemoveArgs : Remove(index)
    \/ \E callback \in Callbacks : OnChange(callback)
    \/ \E callback \in Callbacks : Unsubscribe(callback)
    \/ \E width \in ContainerWidths : Resize(width)
    \/ \E pageX \in PageXs, pageY \in PageYs : TouchStart(pageX, pageY)
    \/ \E pageX \in PageXs, pageY \in PageYs : TouchMove(pageX, pageY)
    \/ TouchEnd
    \/ \E pageX \in PageXs : MouseDown(pageX)
    \/ \E pageX \in PageXs : MouseMove(pageX)
    \/ MouseUp
    \/ \E pageX \in PageXs : MouseLeave(pageX)

Spec == Init /\ [][Next]_vars

(* -------------------------------- claims -------------------------------- *)

ItemCount == Len(innerElements)

\* C1: after every operation the current index satisfies
\* 0 <= CurrentIndex <= itemCount.
C1_IndexWithinBounds == 0 <= currentSlide /\ currentSlide <= ItemCount

\* what goTo(index) clamps its argument to
GoToTarget(index) == clamp(index, 0, ItemCount)

\* C2: a goTo whose clamped index equals the current index delivers no
\* notification to any subscriber and leaves the offset as it was.
C2_GoToCurrentIsSilent ==
    [][(last'.op = "goTo" /\ GoToTarget(last'.arg) = currentSlide)
         => (delivered' = <<>> /\ currentTranslation' = currentTranslation)]_vars

\* C3: a call of the handle onChange returned completes without error and
\* leaves the callback out of the subscriber list.
C3_HandleUnsubscribes ==
    last.op = "unsubscribe"
        => /\ last.err = NoError
           /\ \A k \in 1..Len(listeners) : listeners[k] # last.arg

\* C4: a callback subscribed through onChange, after any sequence of
\* operations, is invoked once within the call, with the index published last,
\* which is the current index.
C4_SubscribeReplaysCurrent ==
    last.op = "onChange"
        => /\ delivered = <<[callback |-> last.arg, args |-> <<currentSlide>>]>>
           /\ lastArgs = <<currentSlide>>

\* a second callback subscribes after the index has moved to 2
C4_Witness ==
    /\ last.op = "onChange" /\ last.arg = 2
    /\ currentSlide = 2
    /\ delivered = <<[callback |-> 2, args |-> <<2>>]>>

\* what a rejected request leaves: an error, the same ItemSet, index and
\* offset, the same cached payload and no delivery
RejectedStep ==
    /\ last'.err # NoError
    /\ innerElements' = innerElements
    /\ currentSlide' = currentSlide
    /\ currentTranslation' = currentTranslation
    /\ lastArgs' = lastArgs
    /\ delivered' = <<>>

\* C5: insert with an index outside [0, itemCount + 1], insert of an item
\* already present and remove with an index outside [0, itemCount) each fail
\* with an error and leave ItemSet, index and offset as they were, with no
\* notification.
C5_RejectedRequestChangesNothing ==
    [][/\ last'.op = "insert" =>
            \A item \in Items, index \in InsertArgs :
                (/\ Insert(item, index)
                 /\ \/ index < 0
                    \/ index > ItemCount + 1
                    \/ \E k \in 1..ItemCount : innerElements[k] = item)
                    => RejectedStep
       /\ last'.op = "remove" =>
            \A index \in RemoveArgs :
                (Remove(index) /\ (index < 0 \/ index >= ItemCount))
                    => RejectedStep]_vars

\* remove(itemCount) was rejected on a carousel with items and a subscriber
C5_Witness ==
    /\ last.op = "remove" /\ last.err = RangeError
    /\ ItemCount = 2 /\ currentSlide = 1
    /\ Len(listeners) = 1
    /\ delivered = <<>>

\* the state after remove(i) called directly after a successful insert(_, i)
AfterInsertRemove == last.op = "remove" /\ pre.set

\* C6 as stated: for every index insert accepts, 0 <= i <= itemCount + 1,
\* insert(item, i) directly followed by remove(i) succeeds and restores the
\* ItemSet and the index.
C6_RoundTripEveryAcceptedIndex ==
    AfterInsertRemove
        => /\ last.err = NoError
           /\ innerElements = pre.items
           /\ currentSlide = pre.slide

\* C6 amended: the round trip holds for 0 <= i <= itemCount; for
\* i = itemCount + 1 insert appends at position itemCount and remove(i) is
\* rejected.
C6_RoundTripUpToItemCount ==
    /\ (AfterInsertRemove /\ pre.arg <= Len(pre.items))
           => /\ last.err = NoError
              /\ innerElements = pre.items
              /\ currentSlide = pre.slide
    /\ (AfterInsertRemove /\ pre.arg = Len(pre.items) + 1)
           => /\ last.err = RangeError
              /\ innerElements = Append(pre.items, innerElements[ItemCount])
              /\ currentSlide = pre.slide

\* a round trip at the current index, which shifts the index forth and back
C6_Witness ==
    /\ AfterInsertRemove /\ last.err = NoError
    /\ pre.arg = pre.slide /\ pre.slide = 1
    /\ Len(pre.items) = 2
    /\ innerElements = pre.items /\ currentSlide = 1

\* the state after an End that directly followed its Start: a tap
AfterTap == last.op \in {"touchend", "mouseup"} /\ pre.set

\* C7: a gesture that ends without a move event is a no-op tap: index and
\* offset after the End equal their values before the Start.
C7_TapChangesNothing ==
    AfterTap
        => /\ currentSlide = pre.slide
           /\ currentTranslation = pre.translation

\* the sum of the widths before a zero-based index, taken over the index set
RECURSIVE WidthOver(_, _)
WidthOver(widths, S) ==
    IF S = {} THEN 0
    ELSE LET k == CHOOSE k \in S : TRUE
         IN  widths[k] + WidthOver(widths, S \ {k})

\* the offset the contract of the calculator gives for an index inside the
\* ItemSet: centred, and with stickToEdges brought into
\* [min(0, containerWidth - totalFrameWidth), 0]
ContractOffset(index, stickToEdges) ==
    LET widths == measureWidths(innerSlides)
        total == WidthOver(widths, 1..Len(widths))
        centred == (containerWidth \div 2) - WidthOver(widths, 1..index)
                       - (widths[index + 1] \div 2)
        low == IF containerWidth - total < 0 THEN containerWidth - total ELSE 0
    IN  IF ~stickToEdges THEN centred
        ELSE IF centred < low THEN low
        ELSE IF centred > 0 THEN 0 ELSE centred

\* C8: for every index in [0, itemCount) the calculator returns the centred
\* offset, clamped into [min(0, containerWidth - totalFrameWidth), 0] when
\* stickToEdges is true and unclamped otherwise; the offset a resize applies
\* is that value for the current index.
C8_CalculatorOffset ==
    /\ \A index \in 0..(ItemCount - 1), stickToEdges \in BOOLEAN :
           _calculateTranslation(index, stickToEdges, containerWidth,
                                 measureWidths(innerSlides))
               = ContractOffset(index, stickToEdges)
    /\ (last.op = "resize" /\ 0 <= currentSlide /\ currentSlide < ItemCount)
           => currentTranslation = ContractOffset(currentSlide, config.stickToEdges)

\* a resize has left the frame at its lower bound, short of the centred offset
C8_Witness ==
    /\ last.op = "resize" /\ config.stickToEdges
    /\ 0 < currentSlide /\ currentSlide < ItemCount
    /\ currentTranslation = containerWidth - measureFrame(measureWidths(innerSlides))
    /\ currentTranslation < 0
    /\ ContractOffset(currentSlide, FALSE) < currentTranslation

\* C9: the calculator is defined on degenerate inputs: 0 for zero items, and
\* for the index one past the last item a number.
C9_CalculatorDefinedOnDegenerate ==
    \A stickToEdges \in BOOLEAN :
        LET offset == _calculateTranslation(ItemCount, stickToEdges, containerWidth,
                                            measureWidths(innerSlides))
        IN  /\ IsNumber(offset)
            /\ ItemCount = 0 => offset = 0

\* the step released a drag and resolved the nearest slide
Resolves ==
    /\ ItemCount > 0
    /\ \/ last'.op = "touchend" /\ Truthy(drag.endX)
       \/ last'.op = "mouseup"
       \/ last'.op = "mouseleave" /\ pointerDown

\* the distance of the unclamped offset of a zero-based index from live
Distance(index, live) ==
    MathAbs(Sub(_calculateTranslation(index, FALSE, containerWidth,
                                      measureWidths(innerSlides)), live))

\* index is the lowest index of ItemSet no other index is nearer to live than
Nearest(index, live) ==
    /\ index \in 0..(ItemCount - 1)
    /\ \A j \in 0..(ItemCount - 1) : ~Less(Distance(j, live), Distance(index, live))
    /\ \A j \in 0..(index - 1) : Less(Distance(index, live), Distance(j, live))

\* C10: on drag release the current index becomes the index whose unclamped
\* offset is nearest to the live offset, the lowest such index winning ties.
C10_ReleaseResolvesNearest ==
    [][Resolves => Nearest(currentSlide', currentTranslation)]_vars

\* a touch drag was released, resolved index 1 and published it
C10_Witness ==
    /\ last.op = "touchend" /\ last.err = NoError
    /\ currentSlide = 1
    /\ Len(delivered) = 1 /\ delivered[1].args = <<1>>
    /\ transitionDuration = config.duration

(* ------------------- C11: mouseleave and mouseup ------------------------ *)
(* The touch and mouse handlers are attached to the selector (lines         *)
(* 243-251), so a gesture can start on a carousel that holds no item.       *)
(* SpecSurface is the environment of a finger or a mouse over the selector, *)
(* whatever it holds, with subscriptions and append calls between the       *)
(* gestures.                                                                *)

MouseDownOnSelector(pageX) ==
    /\ config.draggable /\ pointer = "none"
    /\ _mousedownHandler(pageX)
    /\ pointer' = "mouse"
    /\ Did("mousedown", 0, NoError)
    /\ pre' = Snapshot(0)
    /\ UNCHANGED <<config, stack, handles>>

TouchStartOnSelector(pageX, pageY) ==
    /\ config.draggable /\ pointer = "none"
    /\ _touchstartHandler(pageX, pageY)
    /\ pointer' = "touch"
    /\ Did("touchstart", 0, NoError)
    /\ pre' = Snapshot(0)
    /\ UNCHANGED <<config, stack, handles>>

NextSurface ==
    \/ \E item \in Items : AppendItem(item)
    \/ \E callback \in Callbacks : OnChange(callback)
    \/ \E pageX \in PageXs, pageY \in PageYs : TouchStartOnSelector(pageX, pageY)
    \/ \E pageX \in PageXs, pageY \in PageYs : TouchMove(pageX, pageY)
    \/ TouchEnd
    \/ \E pageX \in PageXs : MouseDownOnSelector(pageX)
    \/ \E pageX \in PageXs : MouseMove(pageX)
    \/ MouseUp
    \/ \E pageX \in PageXs : MouseLeave(pageX)

SpecSurface == Init /\ [][NextSurface]_vars

\* the step ends an active mouse drag, by mouseup or by mouseleave
EndsMouseDrag == pointerDown /\ last'.op \in {"mouseup", "mouseleave"}

\* the one state both handlers are to lead to: the index nearest to the live
\* offset when there is one, its offset, one delivery of it to each
\* subscriber, and the gesture state at rest
MouseDragEnded ==
    /\ pointerDown' = FALSE
    /\ drag' = ClearedDrag
    /\ cursor' = GRAB_CURSOR
    /\ transitionDuration' = config.duration
    /\ ItemCount > 0 =>
         LET i == indexOf(translations, closest(currentTranslation, translations))
         IN  /\ currentSlide' = i
             /\ currentTranslation' =
                    _calculateTranslation(i, config.stickToEdges, containerWidth,
                                          measureWidths(innerSlides))
             /\ delivered' = [k \in 1..Len(listeners) |->
                                 [callback |-> listeners[k], args |-> <<i>>]]
    /\ ItemCount = 0 =>
         /\ currentSlide' = currentSlide
         /\ currentTranslation' = currentTranslation
         /\ delivered' = <<>>

\* C11: from every state in which a mouse drag is active, mouseleave and
\* mouseup lead to the same state: the same index, offset and deliveries, the
\* configured transition and the grab cursor restored, the drag record reset
\* to neutral and the pointer no longer active.
C11_LeaveEqualsUp == [][EndsMouseDrag => MouseDragEnded]_vars

\* the same, for the drags over a carousel that holds an item
C11_LeaveEqualsUpOverItems ==
    [][(EndsMouseDrag /\ ItemCount > 0) => MouseDragEnded]_vars

(* --------------- C12: a publish, one callback at a time ------------------ *)
(* SpecDelivery follows goTo through _setCurrentSlide and notify one        *)
(* callback invocation at a time.  A callback is code of the caller: when   *)
(* it is invoked it returns, or first calls goTo or onChange on the same    *)
(* carousel.  stack holds one frame for each goTo in progress, and          *)
(* delivered the invocations made since the caller's call began; it is      *)
(* emptied when that call returns.                                          *)

\* goTo calls that may be in progress at once
MaxDepth == 2

\* the indices a callback passes to goTo
ReentrantArgs == 0..MaxItems

\* Set.prototype.add: a value already in the set keeps its place
setAdd(set, value) ==
    IF \E k \in 1..Len(set) : set[k] = value THEN set ELSE Append(set, value)

\* a forEach that visits every other position
nextPositionSkipping(k) == k + 2

\* the position forEach visits after position k
nextPosition(k) == k + 1

\* the frame of a goTo that has reached the forEach of notify: beforeChange
\* of line 150, the args notify was called with, the number of listeners at
\* that moment, the position forEach visits next and the invocations made
\* while this frame was the innermost
Frame(beforeChange, args) ==
    [beforeChange |-> beforeChange, args |-> args, size |-> Len(listeners),
     k |-> 1, got |-> <<>>]

Top == stack[Len(stack)]

\* forEach has a listener left to visit: it visits the ones added meanwhile
Delivering == Len(stack) > 0 /\ Top.k <= Len(listeners)

\* the invocation l(...args) forEach makes next
Invocation == [callback |-> listeners[Top.k], args |-> Top.args, by |-> "notify"]

\* the invocation callback(...this._lastArgs) of listen
Replay(callback) == [callback |-> callback, args |-> lastArgs, by |-> "listen"]

Logged(invocation) == [callback |-> invocation.callback, args |-> invocation.args]

\* the stack once the innermost forEach has made the invocations in made
Visited(made) ==
    [stack EXCEPT ![Len(stack)] =
        [Top EXCEPT !.k = nextPosition(Top.k), !.got = Top.got \o made]]

\* goTo from line 150 to the start of forEach: lines 150, 151, 223, 16
enterGoTo(index, frames) ==
    LET slide == clamp(index, 0, Len(innerElements))
    IN  /\ currentSlide' = slide
        /\ lastArgs' = <<slide>>
        /\ stack' = Append(frames, Frame(currentSlide, <<slide>>))

\* the caller calls goTo
CallGoTo(index) ==
    /\ stack = <<>>
    /\ enterGoTo(index, stack)
    /\ delivered' = <<>>
    /\ Did("goTo", index, NoError)
    /\ pre' = NoPre
    /\ UNCHANGED <<config, containerWidth, innerElements, currentTranslation,
                   transitionDuration, cursor, pointerDown, drag, listeners,
                   handles, pointer>>

\* the caller calls moveBy
CallMoveBy(n) ==
    /\ stack = <<>>
    /\ enterGoTo(clamp(currentSlide + n, 0, Len(innerSlides)), stack)
    /\ delivered' = <<>>
    /\ Did("goTo", clamp(currentSlide + n, 0, Len(innerSlides)), NoError)
    /\ pre' = NoPre
    /\ UNCHANGED <<config, containerWidth, innerElements, currentTranslation,
                   transitionDuration, cursor, pointerDown, drag, listeners,
                   handles, pointer>>

\* the caller subscribes between two operations
Subscribe(callback) == stack = <<>> /\ OnChange(callback)

\* forEach invokes a callback and it returns
CallbackReturns ==
    /\ Delivering
    /\ stack' = Visited(<<Invocation>>)
    /\ delivered' = Append(delivered, Logged(Invocation))
    /\ Did("callback", 0, NoError)
    /\ UNCHANGED <<config, containerWidth, innerElements, currentSlide,
                   currentTranslation, transitionDuration, cursor, pointerDown,
                   drag, listeners, lastArgs, handles, pointer, pre>>

\* forEach invokes a callback and it calls goTo
CallbackGoesTo(index) ==
    /\ Delivering /\ Len(stack) < MaxDepth
    /\ enterGoTo(index, Visited(<<Invocation>>))
    /\ delivered' = Append(delivered, Logged(Invocation))
    /\ Did("callback", 0, NoError)
    /\ UNCHANGED <<config, containerWidth, innerElements, currentTranslation,
                   transitionDuration, cursor, pointerDown, drag, listeners,
                   handles, pointer, pre>>

\* forEach invokes a callback and it calls onChange(callback): listen adds
\* the callback to the set and invokes it with the cached args
CallbackSubscribes(callback) ==
    /\ Delivering
    /\ callback <= Len(listeners) + 1
    /\ listeners' = setAdd(listeners, callback)
    /\ stack' = Visited(<<Invocation, Replay(callback)>>)
    /\ delivered' = delivered \o <<Logged(Invocation), Logged(Replay(callback))>>
    /\ Did("callback", 0, NoError)
    /\ UNCHANGED <<config, containerWidth, innerElements, currentSlide,
                   currentTranslation, transitionDuration, cursor, pointerDown,
                   drag, lastArgs, handles, pointer, pre>>

\* forEach has visited every listener: notify and _setCurrentSlide return and
\* goTo runs lines 152-154
GoToReturns ==
    /\ Len(stack) > 0 /\ ~Delivering
    /\ stack' = SubSeq(stack, 1, Len(stack) - 1)
    /\ UNCHANGED <<config, containerWidth, innerElements, currentSlide,
                   transitionDuration, cursor, pointerDown, drag, listeners,
                   lastArgs, handles, pointer, pre>>
    /\ delivered' = IF Len(stack) = 1 THEN <<>> ELSE delivered
    /\ IF Top.beforeChange # currentSlide
       THEN _slideToCurrent
       ELSE UNCHANGED currentTranslation
    /\ Did("return", 0, NoError)

NextDelivery ==
    \/ \E callback \in Callbacks : Subscribe(callback)
    \/ \E index \in GoToArgs : CallGoTo(index)
    \/ \E n \in MoveArgs : CallMoveBy(n)
    \/ CallbackReturns
    \/ \E index \in ReentrantArgs : CallbackGoesTo(index)
    \/ \E callback \in Callbacks : CallbackSubscribes(callback)
    \/ GoToReturns

\* the order of delivery does not depend on which items the carousel was
\* built with: it is followed on the carousels holding items 1..n in order
InitDelivery == Init /\ \A k \in 1..Len(innerElements) : innerElements[k] = k

SpecDelivery == InitDelivery /\ [][NextDelivery]_vars

\* the invocations the forEach of a frame has made itself
ByNotify(frame) == SelectSeq(frame.got, LAMBDA e : e.by = "notify")

\* the invocations of the first n listeners with args, in their order
InOrder(n, args) ==
    [i \in 1..n |-> [callback |-> listeners[i], args |-> args, by |-> "notify"]]

\* C12: publish stores the payload as the cached value before any delivery,
\* then invokes every callback subscribed at that moment exactly once with
\* that payload, in the order in which the callbacks subscribed.
C12_PublishCachesThenDeliversInOrder ==
    /\ (Len(stack) > 0 /\ Top.got = <<>>) => lastArgs = Top.args
    /\ \A d \in 1..Len(stack) :
           /\ stack[d].k <= Len(listeners) + 1
           /\ ByNotify(stack[d]) = InOrder(stack[d].k - 1, stack[d].args)
    /\ (Len(stack) > 0 /\ ~Delivering) => Top.k - 1 >= Top.size

\* a publish of index 2 has been delivered to two subscribers, first to the
\* one that subscribed first, and is about to return
C12_Witness ==
    /\ Len(stack) = 1 /\ ~Delivering
    /\ Top.size = 2 /\ lastArgs = <<2>>
    /\ Top.got = <<[callback |-> 1, args |-> <<2>>, by |-> "notify"],
                   [callback |-> 2, args |-> <<2>>, by |-> "notify"]>>

(* --------------------------------- C13 ---------------------------------- *)

\* the items without the one at a zero-based index
Without(items, index) ==
    SubSeq(items, 1, index) \o SubSeq(items, index + 2, Len(items))

\* C13: remove(index) with 0 <= index < itemCount sets the current index to
\* max(0, CurrentIndex - 1) when index <= CurrentIndex, leaves it unchanged
\* when index > CurrentIndex, and removes exactly the item at that index.
C13_RemoveShiftsNotBelowZero ==
    [][(last'.op = "remove" /\ last'.err = NoError) =>
           /\ innerElements' = Without(innerElements, last'.arg)
           /\ currentSlide' =
                  IF last'.arg <= currentSlide
                  THEN (IF currentSlide - 1 > 0 THEN currentSlide - 1 ELSE 0)
                  ELSE currentSlide]_vars

\* C13 without the lower bound: what remove does
C13_RemoveShifts ==
    [][(last'.op = "remove" /\ last'.err = NoError) =>
           /\ innerElements' = Without(innerElements, last'.arg)
           /\ currentSlide' =
                  IF last'.arg <= currentSlide
                  THEN currentSlide - 1 ELSE currentSlide]_vars

(* --------------------------------- C14 ---------------------------------- *)

\* no drag is active and the last operation is one that completed
Settled ==
    /\ pointer = "none" /\ ~pointerDown
    /\ last.err = NoError
    /\ last.op \in {"constructor", "goTo", "insert", "remove", "resize",
                    "touchend", "mouseup", "mouseleave"}

\* the calculator's offset for the current index under the configuration
OffsetOfCurrent ==
    _calculateTranslation(currentSlide, config.stickToEdges, containerWidth,
                          measureWidths(innerSlides))

\* C14: whenever no drag is active, after construction and after every
\* completed goTo, moveBy, insert, remove, resize or gesture End, the offset
\* equals the calculator's offset for the current index under the configured
\* stickToEdges, also after an insert or remove that shifted the index.
C14_IdleOffsetIsCalculated == Settled => currentTranslation = OffsetOfCurrent

(* --------------------------------- C15 ---------------------------------- *)

\* the step is a touchmove of an active touch gesture locked to the
\* horizontal axis
HorizontalTouchMove ==
    last'.op = "touchmove" /\ pointerDown /\ drag'.letItGo = "true"

VerticalDominates(pageX, pageY) ==
    MathAbs(drag.startY - pageY) >= MathAbs(drag.startX - pageX)

\* the first touchmove of a gesture: it directly follows the touchstart
FirstMove == last.op = "touchstart" /\ last'.op = "touchmove"

\* a later touchmove of a gesture, or its touchend, after a first move that
\* locked the gesture to the vertical axis
LockedVertical == pointer = "touch" /\ last.op = "touchmove" /\ drag.letItGo = "false"

\* C16: within one touch gesture the axis decision is made on the first
\* touchmove only; if vertical displacement dominates on that move, no later
\* touchmove of the gesture changes the offset or records an end position,
\* touchend leaves the current index unchanged, and the decision is undecided
\* again at the start of the next gesture.
C16_AxisLockPerGesture ==
    [][/\ last'.op = "touchstart" => drag'.letItGo = "null"
       /\ FirstMove =>
            \A pageX \in PageXs, pageY \in PageYs :
                TouchMove(pageX, pageY) =>
                    /\ drag'.letItGo = IF VerticalDominates(pageX, pageY)
                                       THEN "false" ELSE "true"
                    /\ VerticalDominates(pageX, pageY) =>
                           /\ currentTranslation' = currentTranslation
                           /\ drag'.endX = drag.endX
       /\ (last.op = "touchmove" /\ last'.op = "touchmove") =>
            drag'.letItGo = drag.letItGo
       /\ (LockedVertical /\ last'.op = "touchmove") =>
            /\ currentTranslation' = currentTranslation
            /\ drag'.endX = drag.endX
       /\ (LockedVertical /\ last'.op = "touchend") =>
            /\ currentSlide' = currentSlide
            /\ delivered' = <<>>
            /\ drag'.letItGo = "null"]_vars

(* --------------------------------- C17 ---------------------------------- *)

\* a subscriber is about to be invoked with the index a goTo or moveBy of the
\* caller has just changed the current index to
InvokedWithNewIndex ==
    /\ Len(stack) = 1 /\ Delivering
    /\ Top.beforeChange # currentSlide
    /\ Top.args = <<currentSlide>>

\* C17: when goTo or moveBy changes the current index to i, the offset for i
\* is computed and applied before subscribers are notified: at the moment a
\* subscriber is invoked with i the offset equals the calculator's offset
\* for i.
C17_OffsetAppliedBeforeNotify ==
    InvokedWithNewIndex => currentTranslation = OffsetOfCurrent

(* --------------------------------- C18 ---------------------------------- *)

\* the step handles a resize that arrives between a Start and its End
ResizeDuringDrag == last'.op = "resize" /\ pointer # "none" /\ pointerDown

\* what C18 and the code agree on: the drag record, the pointer flag and the
\* current index are left alone and nothing is delivered
DragSessionKept ==
    /\ drag' = drag
    /\ pointerDown' = pointerDown
    /\ currentSlide' = currentSlide
    /\ lastArgs' = lastArgs
    /\ delivered' = <<>>

\* C18: a resize that arrives while a drag is active leaves the drag record,
\* the pointer flag and the current index unchanged, delivers no notification
\* and does not replace the live drag offset with the offset of the current
\* index.
C18_ResizeKeepsLiveOffset ==
    [][ResizeDuringDrag =>
           /\ DragSessionKept
           /\ currentTranslation' = currentTranslation]_vars

\* C18 without its last part
C18_ResizeKeepsDragSession == [][ResizeDuringDrag => DragSessionKept]_vars

(* --------------------------------- C19 ---------------------------------- *)

\* how often a frame has invoked a callback with the frame's own payload,
\* by the iteration of notify or by the replay of listen
TimesGot(frame, callback) ==
    Cardinality({j \in 1..Len(frame.got) :
                    /\ frame.got[j].callback = callback
                    /\ frame.got[j].args = frame.args})

\* a callback subscribed by a subscriber while the frame was delivering
Replayed(frame, callback) ==
    \E j \in 1..Len(frame.got) :
        frame.got[j].callback = callback /\ frame.got[j].by = "listen"

\* C19: when a subscriber's callback subscribes a new callback while a
\* publish is being delivered, the new callback receives that publish's
\* payload exactly once, and every previously subscribed callback still
\* receives it exactly once.
C19_SubscribeDuringDeliveryOnce ==
    (Len(stack) > 0 /\ ~Delivering) =>
        \A i \in 1..Len(listeners) :
            \/ i <= Top.size /\ Replayed(Top, listeners[i])
            \/ TimesGot(Top, listeners[i]) = 1

(* --------------------------------- C20 ---------------------------------- *)

\* the args of the latest invocation of a callback since the caller's call
\* began
LatestDelivered(callback) ==
    LET js == {j \in 1..Len(delivered) : delivered[j].callback = callback}
    IN  delivered[CHOOSE j \in js : \A i \in js : i <= j].args

\* the caller's goTo or moveBy has made its last invocation and is about to
\* return: neither the index nor the cache changes any more
OutermostDone == Len(stack) = 1 /\ ~Delivering

\* C20: with two or more subscribers, whatever goTo calls the callbacks made
\* during the deliveries, once the outermost operation is done the index
\* delivered last to every subscriber equals the current index and the
\* cached payload.
C20_NoStaleLatestDelivery ==
    (OutermostDone /\ Len(listeners) >= 2) =>
        /\ lastArgs = <<currentSlide>>
        /\ \A i \in 1..Len(listeners) :
               LatestDelivered(listeners[i]) = <<currentSlide>>

====
